---- MODULE Spec2Model ----
(***************************************************************************)
(* Model of the deployment reconciler of diamonds-hardhat-foundry          *)
(* (src/src/framework/DeploymentManager.ts): the in-memory deployment      *)
(* cache, the on-disk deployment records and the three public operations   *)
(* deploy, getDeployment and ensureDeployment.                             *)
(*                                                                         *)
(* Strings are sequences of one-character strings so that toLowerCase,     *)
(* template-literal concatenation and path.join are computed, not assumed.*)
(*                                                                         *)
(* The provider (hre.ethers.provider) and LocalDiamondDeployer are outside *)
(* the repository.  Every call the code makes to them is an input of the   *)
(* action: it either fails or succeeds, independently of the other calls.  *)
(* A successful getDiamondDeployed() yields a Diamond with an address not  *)
(* used before and writes the record file iff writeDeployedDiamondData;    *)
(* a successful getDiamond() yields the Diamond stored in the record file. *)
(***************************************************************************)
EXTENDS Integers, Sequences, FiniteSets, TLC

\* ------------------------------------------------------------------ bounds
\* Number of successful getDiamondDeployed() calls explored in one process.
MaxDeploys == 2

\* ------------------------------------------------------------- constants
\* chainId answered by the provider (the test fixture's provider).
HardhatChainId == 31337
\* A second chain, for records left by runs against another network.
OtherChainId == 1234

ChainIds == {HardhatChainId, OtherChainId}

\* The optional parameter `chainId?: number` of getDeployment.
Undefined == [given |-> FALSE, value |-> HardhatChainId]
Given(c) == [given |-> TRUE, value |-> c]
ChainIdArgs == {Undefined} \cup {Given(c) : c \in ChainIds}

\* The (diamondName, networkName) pairs the callers of one process use:
\* two names that differ in letter case only, two networks that differ in
\* letter case only, or two pairs whose hyphen-joined forms coincide.  Each
\* family also is a pair of different keys.
Key(diamondName, networkName) ==
    [diamondName |-> diamondName, networkName |-> networkName]

KeyFamilies ==
    { << Key(<<"a">>, <<"a">>), Key(<<"A">>, <<"a">>) >>,
      << Key(<<"a">>, <<"a">>), Key(<<"a">>, <<"A">>) >>,
      << Key(<<"a", "-", "a">>, <<"a">>), Key(<<"a">>, <<"a", "-", "a">>) >> }

\* --------------------------------------------------------------- strings
\* String.prototype.toLowerCase on one character of the alphabet in use.
toLowerChar(c) == IF c = "A" THEN "a" ELSE c

toLowerCase(s) == [i \in DOMAIN s |-> toLowerChar(s[i])]

Digit(n) == CASE n = 0 -> "0" [] n = 1 -> "1" [] n = 2 -> "2" [] n = 3 -> "3"
              [] n = 4 -> "4" [] n = 5 -> "5" [] n = 6 -> "6" [] n = 7 -> "7"
              [] n = 8 -> "8" [] n = 9 -> "9"

RECURSIVE NumberToString(_)
\* `${chainId}` : decimal rendering of a non-negative integer.
NumberToString(n) ==
    IF n < 10 THEN <<Digit(n)>>
    ELSE NumberToString(n \div 10) \o <<Digit(n % 10)>>


\* ------------------------------------------------- keys and record paths
\* `${diamondName}-${networkName}-${chainId}` (deploy line 91, getDeployment
\* line 122): the key of the in-memory deploymentCache.
cacheKey(diamondName, networkName, chainId) ==
    diamondName \o <<"-">> \o networkName \o <<"-">> \o NumberToString(chainId)

\* Mutant of getDeploymentPath: the file name keeps the letter case.
getDeploymentPath_KeepCase(diamondName, networkName, chainId) ==
    <<"diamonds/">> \o diamondName \o <<"/deployments/">>
        \o diamondName \o <<"-">> \o networkName
        \o <<"-">> \o NumberToString(chainId) \o <<".json">>

\* getDeploymentPath (lines 201-214): the file name lowercases both names
\* and keeps the chainId; join(root, "diamonds", diamondName, "deployments",
\* deploymentFileName) keeps the directory name as it was given.
getDeploymentPath(diamondName, networkName, chainId) ==
    LET deploymentFileName ==
            toLowerCase(diamondName) \o <<"-">> \o toLowerCase(networkName)
                \o <<"-">> \o NumberToString(chainId) \o <<".json">>
    IN  <<"diamonds/">> \o diamondName \o <<"/deployments/">>
            \o deploymentFileName

\* Mutant of hasDeploymentRecord: the "deployments" directory is left out of
\* the path, so no record is ever found.
hasDeploymentRecord_NoDir(files, diamondName, networkName, chainId) ==
    LET deploymentFileName ==
            toLowerCase(diamondName) \o <<"-">> \o toLowerCase(networkName)
                \o <<"-">> \o NumberToString(chainId) \o <<".json">>
        deploymentPath ==
            <<"diamonds/">> \o diamondName \o <<"/">> \o deploymentFileName
    IN  deploymentPath \in DOMAIN files

\* hasDeploymentRecord (lines 181-196) builds the path itself and tests it
\* with existsSync.  `files` is the file system: a function from the paths
\* of the existing record files to the Diamond each one stores.
hasDeploymentRecord(files, diamondName, networkName, chainId) ==
    LET deploymentFileName ==
            toLowerCase(diamondName) \o <<"-">> \o toLowerCase(networkName)
                \o <<"-">> \o NumberToString(chainId) \o <<".json">>
        deploymentPath ==
            <<"diamonds/">> \o diamondName \o <<"/deployments/">>
                \o deploymentFileName
    IN  deploymentPath \in DOMAIN files

\* ------------------------------------------------------- values, results
\* A Diamond: the DiamondAddress of its deployed data and the configuration
\* (diamondName, networkName, chainId) it was deployed for.
Diamond(address, diamondName, networkName, chainId) ==
    [DiamondAddress |-> address, diamondName |-> diamondName,
     networkName |-> networkName, chainId |-> chainId]

NoDiamond == Diamond(0, <<>>, <<>>, 0)

\* What a call hands back: a Diamond, null, or a thrown Error with the
\* parts of its message.
Value(diamond) == [kind |-> "value", diamond |-> diamond, message |-> <<>>]
Null == [kind |-> "null", diamond |-> NoDiamond, message |-> <<>>]
Error(message) == [kind |-> "error", diamond |-> NoDiamond, message |-> message]

EmptyMap == [k \in {} |-> NoDiamond]

\* Map.prototype.set / writing a file: add or replace one entry.
MapSet(map, k, v) == [x \in DOMAIN map \cup {k} |-> IF x = k THEN v ELSE map[x]]

\* Map.prototype.get, as a result (null when the key is absent).
MapGet(map, k) == IF k \in DOMAIN map THEN Value(map[k]) ELSE Null

\* ------------------------------------------------ provider and library
\* Number((await provider.getNetwork()).chainId) when the lookup succeeds.
ProviderChainId == HardhatChainId

\* Message of the Error a failing provider.getNetwork() rejects with.
NetworkError == "Network error"
\* Message of the Error a failing LocalDiamondDeployer call throws.
LibraryError == "LocalDiamondDeployer not found"

\* Where LocalDiamondDeployer keeps the record of a configuration: the
\* layout the tests create by hand.
RecordFilePath(cfg) ==
    getDeploymentPath(cfg.diamondName, cfg.networkName, cfg.chainId)

\* One use of LocalDiamondDeployer inside a try block: which operation was
\* asked for, with which writeDeployedDiamondData, and whether it threw.
LibCall(op, cfg, ok) ==
    [op |-> op, write |-> cfg.writeDeployedDiamondData, ok |-> ok]

\* A world is the state a call runs in and what it has done so far:
\*   cache     the DeploymentManager's deploymentCache
\*   files     the record files on disk
\*   deployed  number of Diamonds deployed so far
\*   calls     the uses of the library, in order
\*   netFail   whether a provider.getNetwork() call has failed
\*   ret       what the last step returned or threw
\* LocalDiamondDeployer.getInstance(hre, cfg) followed by getDiamond():
\* loads the Diamond of the existing record and writes nothing; libOk is
\* whether both calls succeed.
LoadDiamond(w, cfg, libOk) ==
    IF libOk /\ RecordFilePath(cfg) \in DOMAIN w.files
    THEN [w EXCEPT !.calls = Append(@, LibCall("load", cfg, TRUE)),
                   !.ret = Value(w.files[RecordFilePath(cfg)])]
    ELSE [w EXCEPT !.calls = Append(@, LibCall("load", cfg, FALSE)),
                   !.ret = Error(<<LibraryError>>)]

\* LocalDiamondDeployer.getInstance(hre, cfg), setVerbose(false) and
\* getDiamondDeployed(): deploys a Diamond at an address not used before
\* and writes its record iff cfg.writeDeployedDiamondData; libOk is whether
\* all calls succeed.
DeployDiamond(w, cfg, libOk) ==
    LET diamond == Diamond(w.deployed + 2, cfg.diamondName, cfg.networkName,
                           cfg.chainId)
    IN  IF libOk
        THEN [w EXCEPT !.calls = Append(@, LibCall("deploy", cfg, TRUE)),
                       !.deployed = @ + 1,
                       !.files = IF cfg.writeDeployedDiamondData
                                 THEN MapSet(@, RecordFilePath(cfg), diamond)
                                 ELSE @,
                       !.ret = Value(diamond)]
        ELSE [w EXCEPT !.calls = Append(@, LibCall("deploy", cfg, FALSE)),
                       !.ret = Error(<<LibraryError>>)]

\* ---------------------------------------------------- DeploymentManager
Config(diamondName, networkName, chainId, write) ==
    [diamondName |-> diamondName, networkName |-> networkName,
     chainId |-> chainId, writeDeployedDiamondData |-> write]

\* deploy, line 45: the existing record is used unless force is set.
useExistingRecord(files, diamondName, networkName, chainId, force) ==
    ~force /\ hasDeploymentRecord(files, diamondName, networkName, chainId)

\* Mutant of cacheDeployment: the Diamond is never cached.
cacheDeployment_Never(cache, diamondName, networkName, chainId, write, diamond) ==
    cache

\* Mutant of cacheDeployment: an entry already cached is kept.
cacheDeployment_KeepFirst(cache, diamondName, networkName, chainId, write, diamond) ==
    IF ~write /\ cacheKey(diamondName, networkName, chainId) \notin DOMAIN cache
    THEN MapSet(cache, cacheKey(diamondName, networkName, chainId), diamond)
    ELSE cache

\* deploy, lines 89-94: the new Diamond is cached iff it is not written.
cacheDeployment(cache, diamondName, networkName, chainId, write, diamond) ==
    IF ~write
    THEN MapSet(cache, cacheKey(diamondName, networkName, chainId), diamond)
    ELSE cache

\* deploy (lines 31-103)
deploy(w, diamondName, networkName, force, write, netOk, libOk) ==
    IF ~netOk
    THEN [w EXCEPT !.netFail = TRUE, !.ret = Error(<<NetworkError>>)]
    ELSE
    LET chainId == ProviderChainId
        cfg == Config(diamondName, networkName, chainId, write)
    IN  IF useExistingRecord(w.files, diamondName, networkName, chainId, force)
        THEN LET r == LoadDiamond(w, cfg, libOk)
             IN  IF r.ret.kind = "error"
                 THEN [r EXCEPT !.ret =
                         Error(<<"Failed to load deployment">> \o r.ret.message)]
                 ELSE r
        ELSE LET r == DeployDiamond(w, cfg, libOk)
             IN  IF r.ret.kind = "error"
                 THEN [r EXCEPT !.ret =
                         Error(<<"Failed to deploy diamond">> \o r.ret.message)]
                 ELSE [r EXCEPT !.cache =
                         cacheDeployment(@, diamondName, networkName, chainId,
                                         write, r.ret.diamond)]

\* Mutant of cachedDeployment: the cache key is built from the provider's
\* chainId instead of actualChainId.
cachedDeployment_ProviderChain(cache, diamondName, networkName, actualChainId) ==
    MapGet(cache, cacheKey(diamondName, networkName, ProviderChainId))

\* getDeployment, lines 121-126: the cache is looked up first.
cachedDeployment(cache, diamondName, networkName, actualChainId) ==
    MapGet(cache, cacheKey(diamondName, networkName, actualChainId))

\* Mutant of getDeployment: without the try/catch of lines 116 and 142-145
\* a provider or library error reaches the caller.
getDeployment_NoCatch(w, diamondName, networkName, chainId, netOk, libOk) ==
    IF ~netOk
    THEN [w EXCEPT !.netFail = TRUE, !.ret = Error(<<NetworkError>>)]
    ELSE
    LET actualChainId == IF chainId.given THEN chainId.value ELSE ProviderChainId
        cached == cachedDeployment(w.cache, diamondName, networkName, actualChainId)
        cfg == Config(diamondName, networkName, actualChainId, FALSE)
    IN  IF cached.kind = "value"
        THEN [w EXCEPT !.ret = cached]
        ELSE IF ~hasDeploymentRecord(w.files, diamondName, networkName, actualChainId)
        THEN [w EXCEPT !.ret = Null]
        ELSE LoadDiamond(w, cfg, libOk)

\* getDeployment (lines 111-146); every error is caught and becomes null.
getDeployment(w, diamondName, networkName, chainId, netOk, libOk) ==
    IF ~netOk
    THEN [w EXCEPT !.netFail = TRUE, !.ret = Null]
    ELSE
    LET actualChainId == IF chainId.given THEN chainId.value ELSE ProviderChainId
        cached == cachedDeployment(w.cache, diamondName, networkName, actualChainId)
        cfg == Config(diamondName, networkName, actualChainId, FALSE)
    IN  IF cached.kind = "value"
        THEN [w EXCEPT !.ret = cached]
        ELSE IF ~hasDeploymentRecord(w.files, diamondName, networkName, actualChainId)
        THEN [w EXCEPT !.ret = Null]
        ELSE LET r == LoadDiamond(w, cfg, libOk)
             IN  IF r.ret.kind = "error" THEN [r EXCEPT !.ret = Null] ELSE r

\* ensureDeployment, line 168: an existing deployment is returned unless
\* force is set.
useExisting(existing, force) == existing.kind = "value" /\ ~force

\* ensureDeployment (lines 155-175)
ensureDeployment(w, diamondName, networkName, force, write, netOk1, netOk2, libOk1, netOk3, libOk2) ==
    IF ~netOk1
    THEN [w EXCEPT !.netFail = TRUE, !.ret = Error(<<NetworkError>>)]
    ELSE
    LET chainId == ProviderChainId
        g == getDeployment(w, diamondName, networkName, Given(chainId),
                           netOk2, libOk1)
    IN  IF useExisting(g.ret, force)
        THEN g
        ELSE deploy(g, diamondName, networkName, force, write, netOk3, libOk2)

\* ------------------------------------------------------- child processes
\* How a spawned child ends: it exits with a code, it is ended by a signal
\* (the close event then carries code null), or it cannot be spawned (the
\* error event).
Exit(code) == [kind |-> "exit", code |-> code]
Signal == [kind |-> "signal", code |-> 0]
SpawnError == [kind |-> "error", code |-> 0]
NotSpawned == [kind |-> "none", code |-> 0]
ChildOutcomes == {Exit(0), Exit(1), Signal, SpawnError}

\* What a utility that runs a child resolves to: a success flag, or a
\* rejection.
Resolved(success) == [kind |-> "value", success |-> success, exitCode |-> 0]
Rejected == [kind |-> "error", success |-> FALSE, exitCode |-> 0]

\* execForgeAsync, line 73: exitCode: code || 0.
closeExitCode(child) ==
    IF child.kind = "signal" \/ child.code = 0 THEN 0 ELSE child.code

\* execForgeAsync (foundry.ts lines 40-81)
execForgeAsync(child) ==
    IF child.kind = "error"
    THEN Rejected
    ELSE [kind |-> "value", success |-> FALSE, exitCode |-> closeExitCode(child)]

\* runForgeTest lines 118-136 and compileForge lines 149-167: success is
\* exitCode === 0, and a rejection is caught and becomes success: false.
forgeResult(result) ==
    IF result.kind = "error" THEN Resolved(FALSE) ELSE Resolved(result.exitCode = 0)

\* compileForge (foundry.ts lines 143-168)
compileForge(child) == forgeResult(execForgeAsync(child))

\* ForgeCoverageFramework.executeForge (lines 368-389)
executeForge(child) ==
    CASE child.kind = "error" -> Rejected
      [] child.kind = "exit" /\ child.code = 0 -> Resolved(TRUE)
      [] OTHER -> Resolved(FALSE)

\* ------------------------------------------------------- command builder
\* Options are a function from the names of the fields that are set to
\* their values; a field that is not in the domain is undefined.
NoOptions == [n \in {} |-> ""]
Defined(options, name) == name \in DOMAIN options
TruthyString(options, name) == Defined(options, name) /\ options[name] # ""
TruthyNumber(options, name) == Defined(options, name) /\ options[name] # 0
TruthyFlag(options, name) == Defined(options, name) /\ options[name]

\* Number.prototype.toString
RECURSIVE numberToString(_)
numberToString(n) ==
    IF n < 10 THEN Digit(n) ELSE numberToString(n \div 10) \o Digit(n % 10)

\* "v".repeat(n)
RECURSIVE repeat(_, _)
repeat(s, n) == IF n <= 0 THEN "" ELSE s \o repeat(s, n - 1)

StringOption(options, name, flag) ==
    IF TruthyString(options, name) THEN <<flag, options[name]>> ELSE <<>>
NumberOption(options, name, flag) ==
    IF Defined(options, name) THEN <<flag, numberToString(options[name])>> ELSE <<>>
FlagOption(options, name, flag) ==
    IF TruthyFlag(options, name) THEN <<flag>> ELSE <<>>

\* buildReportOptions, lines 183-187: one --report per report type.
RECURSIVE ReportFlags(_)
ReportFlags(report) ==
    IF report = <<>> THEN <<>>
    ELSE <<"--report", Head(report)>> \o ReportFlags(Tail(report))

\* buildReportOptions (lines 179-210)
buildReportOptions(options) ==
    (IF Defined(options, "report") THEN ReportFlags(options["report"]) ELSE <<>>)
    \o StringOption(options, "reportFile", "--report-file")
    \o StringOption(options, "lcovVersion", "--lcov-version")
    \o FlagOption(options, "includeLibs", "--include-libs")
    \o FlagOption(options, "excludeTests", "--exclude-tests")
    \o FlagOption(options, "irMinimum", "--ir-minimum")

\* buildFilterOptions (lines 215-247)
buildFilterOptions(options) ==
    StringOption(options, "matchTest", "--match-test")
    \o StringOption(options, "noMatchTest", "--no-match-test")
    \o StringOption(options, "matchContract", "--match-contract")
    \o StringOption(options, "noMatchContract", "--no-match-contract")
    \o StringOption(options, "matchPath", "--match-path")
    \o StringOption(options, "noMatchPath", "--no-match-path")
    \o StringOption(options, "noMatchCoverage", "--no-match-coverage")

\* Mutant of VerbosityFlag: one marker whatever the level.
VerbosityFlag_OneMarker(verbosity) == "-v"

\* "-" + "v".repeat(verbosity)
VerbosityFlag(verbosity) == "-" \o repeat("v", verbosity)

\* buildDisplayOptions (lines 252-277)
buildDisplayOptions(options) ==
    (IF TruthyNumber(options, "verbosity") /\ options["verbosity"] > 0
     THEN <<VerbosityFlag(options["verbosity"])>> ELSE <<>>)
    \o FlagOption(options, "quiet", "--quiet")
    \o FlagOption(options, "json", "--json")
    \o FlagOption(options, "md", "--md")
    \o StringOption(options, "color", "--color")

\* buildTestOptions (lines 282-306)
buildTestOptions(options) ==
    NumberOption(options, "threads", "--threads")
    \o NumberOption(options, "fuzzRuns", "--fuzz-runs")
    \o StringOption(options, "fuzzSeed", "--fuzz-seed")
    \o FlagOption(options, "failFast", "--fail-fast")
    \o FlagOption(options, "allowFailure", "--allow-failure")

\* buildEvmOptions (lines 311-331)
buildEvmOptions(options) ==
    NumberOption(options, "forkBlockNumber", "--fork-block-number")
    \o StringOption(options, "initialBalance", "--initial-balance")
    \o StringOption(options, "sender", "--sender")
    \o FlagOption(options, "ffi", "--ffi")

\* buildBuildOptions (lines 336-360)
buildBuildOptions(options) ==
    FlagOption(options, "force", "--force")
    \o FlagOption(options, "noCache", "--no-cache")
    \o FlagOption(options, "optimize", "--optimize")
    \o NumberOption(options, "optimizerRuns", "--optimizer-runs")
    \o FlagOption(options, "viaIr", "--via-ir")

\* Array.prototype.filter((arg) => arg !== "")
RECURSIVE filterNonEmpty(_)
filterNonEmpty(args) ==
    IF args = <<>> THEN <<>>
    ELSE (IF Head(args) # "" THEN <<Head(args)>> ELSE <<>>)
         \o filterNonEmpty(Tail(args))

\* ForgeCoverageFramework.buildCoverageCommand (lines 157-174)
buildCoverageCommand(options) ==
    filterNonEmpty(
        StringOption(options, "forkUrl", "--fork-url")
        \o buildReportOptions(options)
        \o buildFilterOptions(options)
        \o buildDisplayOptions(options)
        \o buildTestOptions(options)
        \o buildEvmOptions(options)
        \o buildBuildOptions(options))

\* runForgeTest, lines 96-116: the arguments after the subcommand "test".
runForgeTestArgs(options) ==
    StringOption(options, "matchTest", "--match-test")
    \o StringOption(options, "matchContract", "--match-contract")
    \o (IF TruthyNumber(options, "verbosity")
        THEN <<VerbosityFlag(options["verbosity"])>> ELSE <<>>)
    \o FlagOption(options, "gasReport", "--gas-report")
    \o StringOption(options, "forkUrl", "--fork-url")

\* ------------------------------------------------------- coverage task
\* A string the task parses is a sequence of characters.
\* String.prototype.trim
RECURSIVE trimStart(_)
trimStart(s) == IF s # <<>> /\ Head(s) = " " THEN trimStart(Tail(s)) ELSE s

RECURSIVE trimEnd(_)
trimEnd(s) ==
    IF s # <<>> /\ s[Len(s)] = " " THEN trimEnd(SubSeq(s, 1, Len(s) - 1)) ELSE s

trim(s) == trimEnd(trimStart(s))

\* String.prototype.split(separator): the pieces between the separators,
\* empty pieces included.
RECURSIVE split(_, _)
split(s, separator) ==
    IF \E i \in DOMAIN s : s[i] = separator
    THEN LET i == CHOOSE j \in DOMAIN s :
                    /\ s[j] = separator
                    /\ \A k \in 1..(j - 1) : s[k] # separator
         IN  <<SubSeq(s, 1, i - 1)>> \o split(SubSeq(s, i + 1, Len(s)), separator)
    ELSE <<s>>

\* The characters of a piece as the string handed to the builder.
RECURSIVE charsToString(_)
charsToString(s) == IF s = <<>> THEN "" ELSE Head(s) \o charsToString(Tail(s))

\* coverage.ts lines 187-189: taskArgs.report split at the commas, each
\* piece trimmed; undefined when the argument is absent or empty.
reportTypes(report) ==
    LET pieces == split(report, ",")
    IN  [i \in DOMAIN pieces |-> charsToString(trim(pieces[i]))]

\* coverage.ts lines 192-236: the options the task hands to runCoverage.
coverageTaskOptions(taskArgs) ==
    LET set == { n \in DOMAIN taskArgs : n = "report" => taskArgs[n] # <<>> }
    IN  [n \in set |-> IF n = "report" THEN reportTypes(taskArgs[n])
                       ELSE taskArgs[n]]

\* ------------------------------------------------------- HelperGenerator
\* A facet name is a sequence of characters.
\* String.prototype.toUpperCase, by character.
UpperCase ==
    [a |-> "A", b |-> "B", c |-> "C", d |-> "D", e |-> "E", f |-> "F", g |-> "G",
     h |-> "H", i |-> "I", j |-> "J", k |-> "K", l |-> "L", m |-> "M", n |-> "N",
     o |-> "O", p |-> "P", q |-> "Q", r |-> "R", s |-> "S", t |-> "T", u |-> "U",
     v |-> "V", w |-> "W", x |-> "X", y |-> "Y", z |-> "Z"]

toUpperCase(s) ==
    [i \in DOMAIN s |-> IF s[i] \in DOMAIN UpperCase THEN UpperCase[s[i]] ELSE s[i]]

\* replace(/Facet$/, "")
stripFacetSuffix(s) ==
    IF Len(s) >= 5 /\ SubSeq(s, Len(s) - 4, Len(s)) = <<"F", "a", "c", "e", "t">>
    THEN SubSeq(s, 1, Len(s) - 5)
    ELSE s

\* replace(/([A-Z])/g, "_$1")
RECURSIVE insertUnderscores(_)
insertUnderscores(s) ==
    IF s = <<>> THEN <<>>
    ELSE (IF Head(s) \in { UpperCase[c] : c \in DOMAIN UpperCase }
          THEN <<"_", Head(s)>> ELSE <<Head(s)>>)
         \o insertUnderscores(Tail(s))

\* replace(/^_/, "")
stripLeadingUnderscore(s) == IF s # <<>> /\ Head(s) = "_" THEN Tail(s) ELSE s

\* Mutant of constantName: the suffix Facet is not stripped.
constantName_KeepSuffix(facetName) ==
    charsToString(stripLeadingUnderscore(toUpperCase(insertUnderscores(facetName))))
    \o "_FACET"

\* The identifier of the constant of a facet (lines 244-248, and again
\* lines 301-305).
constantName(facetName) ==
    charsToString(stripLeadingUnderscore(toUpperCase(insertUnderscores(
        stripFacetSuffix(facetName)))))
    \o "_FACET"

\* Line 242: deploymentData.DeployedFacets ?? {}, as Object.entries lists
\* it: a sequence of [name, address] with no name twice.
DeployedFacets(deploymentData) ==
    IF "DeployedFacets" \in DOMAIN deploymentData
    THEN deploymentData.DeployedFacets ELSE <<>>

\* The generated DiamondDeployment.sol (generateLibrarySource, lines
\* 182-319) by what it declares: the header's timestamp (lines 188, 208) and
\* deployment file (lines 189-191, 207), the constants of the Diamond, one
\* constant per facet (lines 243-252) and the branches of getFacetAddress
\* (lines 299-312), which falls through to address(0). now is the clock.
generateLibrarySource(diamondName, networkName, chainId, deploymentData, now) ==
    LET facets == DeployedFacets(deploymentData)
    IN  [generatedAt |-> now,
         generatedFrom |-> <<toLowerCase(diamondName), networkName, chainId>>,
         DIAMOND_NAME |-> diamondName,
         DIAMOND_ADDRESS |-> deploymentData.DiamondAddress,
         constants |-> [i \in DOMAIN facets |->
                          [identifier |-> constantName(facets[i].name),
                           value |-> facets[i].address]],
         branches |-> [i \in DOMAIN facets |->
                         [facetName |-> facets[i].name,
                          returns |-> constantName(facets[i].name)]]]

\* What the generated getFacetAddress gives for a name: the library does
\* not compile when an identifier is declared twice; otherwise the first
\* branch whose name is equal returns its constant, and a name that no
\* branch has gives address(0).
getFacetAddress(content, facetName) ==
    LET constants == content.constants
        branches == content.branches
        hits == { i \in DOMAIN branches : branches[i].facetName = facetName }
    IN  IF \E i, j \in DOMAIN constants :
               i # j /\ constants[i].identifier = constants[j].identifier
        THEN [kind |-> "compileError", address |-> 0]
        ELSE IF hits = {} THEN [kind |-> "address", address |-> 0]
        ELSE LET first == CHOOSE i \in hits : \A j \in hits : i <= j
                 declared == CHOOSE k \in DOMAIN constants :
                                 constants[k].identifier = branches[first].returns
             IN  [kind |-> "address", address |-> constants[declared].value]

\* The configured helpers directory (hre.diamondsFoundry.helpersDir).
HelpersDir == "test/foundry/helpers"

\* No DiamondDeployment.sol written yet.
NoHelper ==
    [exists |-> FALSE, dir |-> "",
     content |-> generateLibrarySource(<<>>, <<>>, 0, NoDiamond, 0)]

\* generateDeploymentHelpers (lines 36-75): writes DiamondDeployment.sol in
\* the configured helpers directory; ok is whether mkdirSync and
\* writeFileSync succeed.
generateDeploymentHelpers(helper, diamondName, networkName, chainId, deploymentData, now, ok) ==
    IF ok
    THEN [exists |-> TRUE, dir |-> HelpersDir,
          content |-> generateLibrarySource(diamondName, networkName, chainId,
                                            deploymentData, now)]
    ELSE helper

\* ------------------------------------------- frameworks and tasks: values
\* A run is one call of a framework method or of a task action, with what
\* it has done so far:
\*   op              the method or task
\*   viaTask         runTests / runCoverage called by the test / coverage task
\*   pc              the stage the call is about to enter, or "done"
\*   cache           deploymentCache of the DeploymentManager the call uses
\*   files, deployed, helper   record files, Diamonds deployed, helper file
\*   events          the stages entered, in order, each with its outcome:
\*                   ok when the call returned without an error, for the
\*                   compiler when its child exited with code 0, for the
\*                   runner when its child was spawned
\*   calls           the uses of LocalDiamondDeployer, in order
\*   netFail         whether a provider.getNetwork() call has failed
\*   taskArgs        the arguments of the task that the task parses
\*   now             the clock when the call generates the helper file
\*   args            the argument vector handed to the runner
\*   child           how the runner's child process ended
\*   exec            what runForgeTest / executeForge gave back
\*   ret             what the call returned: "true", "false", "value" or
\*                   "throw" ("pending" until then), with message / diamond
\*   exitCode        process.exitCode as the test / coverage task set it
Event(stage, ok) == [stage |-> stage, ok |-> ok]

\* Default fork URL of runCoverage (lines 121 and 123).
DefaultForkUrl == "http://127.0.0.1:8545"

\* Messages of the Errors thrown by the framework and the tasks.
NoDeploymentFound == "No deployment found. Deploy first using deployOnly()"
DeploymentNotFound == "Deployment not found"
ConflictingFlags == "Conflicting flags: --reuse and --force"
WriteError == "EACCES"

ManagerWorld(p) ==
    [cache |-> p.cache, files |-> p.files, deployed |-> p.deployed,
     calls |-> <<>>, netFail |-> FALSE, ret |-> Null]

\* The run after a DeploymentManager call that ended in world r.
Absorb(p, r, stage) ==
    [p EXCEPT !.cache = r.cache, !.files = r.files, !.deployed = r.deployed,
              !.calls = @ \o r.calls, !.netFail = @ \/ r.netFail,
              !.events = Append(@, Event(stage, r.ret.kind # "error"))]

\* return true / return false of runTests and runCoverage
Return(p, success) ==
    [p EXCEPT !.pc = "done", !.ret = IF success THEN "true" ELSE "false"]
\* throw new Error(message), or an error passed on to the caller
Throw(p, message) ==
    [p EXCEPT !.pc = "done", !.ret = "throw", !.message = message]
\* return diamond
ReturnValue(p, diamond) ==
    [p EXCEPT !.pc = "done", !.ret = "value", !.diamond = diamond]

\* The writeDeployedDiamondData argument of the ensureDeployment call of the
\* reconcile stage: runTests (lines 100-104) passes three arguments, so the
\* parameter takes its default false; runCoverage (lines 64-69) passes the
\* option.
reconcileWrite(op, writeDeployedDiamondData) ==
    IF op = "runCoverage" THEN writeDeployedDiamondData ELSE FALSE

\* Stage "ensure Diamond deployment" of runTests (lines 98-107) and of
\* runCoverage (lines 62-72).
reconcileStage(p, e) ==
    IF p.skipDeployment
    THEN [p EXCEPT !.pc = "generate"]
    ELSE LET r == ensureDeployment(ManagerWorld(p), p.diamondName, p.networkName,
                                   p.force, reconcileWrite(p.op, p.save),
                                   e.netOk1, e.netOk2, e.libOk1, e.netOk3, e.libOk2)
             q == Absorb(p, r, "ensureDeployment")
         IN  IF r.ret.kind = "error" THEN Return(q, FALSE)
             ELSE [q EXCEPT !.pc = "generate"]

\* The call of the generator and what follows it in a stage: a throwing
\* generator ends the run with false.
generateHelpers(p, chainId, deploymentData, genOk, next) ==
    LET q == [p EXCEPT !.events = Append(@, Event("generateDeploymentHelpers", genOk)),
                       !.helper = generateDeploymentHelpers(@, p.diamondName,
                                      p.networkName, chainId, deploymentData,
                                      p.now, genOk)]
    IN  IF genOk THEN [q EXCEPT !.pc = next] ELSE Return(q, FALSE)

\* Mutant of noDeployment: the missing deployment is not noticed.
noDeployment_Ignored(deployment) == FALSE

\* if (!deployment)
noDeployment(deployment) == deployment.kind # "value"

\* Stage "generate helpers" of runTests (lines 110-136).
runTestsGenerate(p, e) ==
    IF p.skipHelpers
    THEN [p EXCEPT !.pc = "compile"]
    ELSE LET g == getDeployment(ManagerWorld(p), p.diamondName, p.networkName,
                                Undefined, e.netOk, e.libOk)
             q == Absorb(p, g, "getDeployment")
         IN  IF noDeployment(g.ret) THEN Return(q, FALSE)
             ELSE IF ~e.netOk4 THEN Return([q EXCEPT !.netFail = TRUE], FALSE)
             ELSE generateHelpers(q, ProviderChainId, g.ret.diamond, e.genOk,
                                  "compile")

\* Stage "generate helpers" of runCoverage (lines 75-111): without a
\* deployment the data comes from ensureDeployment(diamondName,
\* networkName, false, false).
runCoverageGenerate(p, e) ==
    IF p.skipHelpers
    THEN [p EXCEPT !.pc = "execute"]
    ELSE LET g == getDeployment(ManagerWorld(p), p.diamondName, p.networkName,
                                Undefined, e.netOk, e.libOk)
             q == Absorb(p, g, "getDeployment")
         IN  IF ~e.netOk4 THEN Return([q EXCEPT !.netFail = TRUE], FALSE)
             ELSE IF ~noDeployment(g.ret)
             THEN generateHelpers(q, ProviderChainId, g.ret.diamond, e.genOk,
                                  "execute")
             ELSE LET r == ensureDeployment(ManagerWorld(q), p.diamondName,
                                            p.networkName, FALSE, FALSE,
                                            e.netOk1, e.netOk2, e.libOk1,
                                            e.netOk3, e.libOk2)
                      s == Absorb(q, r, "ensureDeployment")
                  IN  IF r.ret.kind = "error" THEN Return(s, FALSE)
                      ELSE generateHelpers(s, ProviderChainId, r.ret.diamond,
                                           e.genOk, "execute")

\* runTests, line 145: if (!compileResult.success)
compileFailed(compileResult) == ~compileResult.success

\* Stage "compile Forge contracts" of runTests (lines 139-148).
compileStage(p, child) ==
    LET compileResult == compileForge(child)
        q == [p EXCEPT !.events = Append(@, Event("compileForge", child = Exit(0)))]
    IN  IF compileFailed(compileResult) THEN Return(q, FALSE)
        ELSE [q EXCEPT !.pc = "execute"]

\* The options runTests hands to runForgeTest (lines 152-158): no forkUrl.
runTestsOptions(p) == p.options

\* The options runCoverage hands to buildCoverageCommand (line 131):
\* { ...options, forkUrl }.
runCoverageOptions(p) ==
    [n \in DOMAIN p.options \cup {"forkUrl"} |->
        IF n = "forkUrl" THEN DefaultForkUrl ELSE p.options[n]]

\* runForgeTest (foundry.ts lines 87-137) as called by runTests, line 152.
runForgeTest(p, options, child) ==
    LET result == forgeResult(execForgeAsync(child))
    IN  [p EXCEPT !.args = <<"test">> \o runForgeTestArgs(options),
                  !.events = @ \o <<Event("buildCommand", TRUE),
                                    Event("spawn", child.kind # "error")>>,
                  !.child = child,
                  !.exec = IF result.success THEN "true" ELSE "false"]

\* Stage "run Forge tests" of runTests (lines 151-160).
runTestsExecute(p, child) ==
    LET q == runForgeTest(p, runTestsOptions(p), child)
    IN  Return(q, q.exec = "true")

\* Stage "run coverage" of runCoverage (lines 114-148).
runCoverageExecute(p, child) ==
    LET result == executeForge(child)
        q == [p EXCEPT !.args = <<"coverage">> \o
                                 buildCoverageCommand(runCoverageOptions(p)),
                       !.events = @ \o <<Event("buildCommand", TRUE),
                                         Event("spawn", child.kind # "error")>>,
                       !.child = child,
                       !.exec = CASE result.kind = "error" -> "throw"
                                  [] result.success -> "true"
                                  [] OTHER -> "false"]
    IN  Return(q, q.exec = "true")

\* ensureDeployment(diamondName, networkName, force) as called by deployOnly
\* and by the deploy task: an error goes to the caller.
ensureOrThrow(p, force, e) ==
    LET r == ensureDeployment(ManagerWorld(p), p.diamondName, p.networkName,
                              force, FALSE,
                              e.netOk1, e.netOk2, e.libOk1, e.netOk3, e.libOk2)
        q == Absorb(p, r, "ensureDeployment")
    IN  IF r.ret.kind = "error" THEN Throw(q, r.ret.message)
        ELSE ReturnValue(q, r.ret.diamond)

\* ForgeFuzzingFramework.deployOnly (lines 170-180)
deployOnly(p, e) == ensureOrThrow(p, p.force, e)

\* ForgeFuzzingFramework.generateHelpersOnly (lines 185-210) and the
\* generate-helpers task (generate-helpers.ts lines 45-98), which differ in
\* the message of the Error thrown when there is no deployment.
generateHelpersOnly(p, e, notFound) ==
    LET g == getDeployment(ManagerWorld(p), p.diamondName, p.networkName,
                           Undefined, e.netOk, e.libOk)
        q == Absorb(p, g, "getDeployment")
    IN  IF noDeployment(g.ret) THEN Throw(q, <<notFound>>)
        ELSE IF ~e.netOk4 THEN Throw([q EXCEPT !.netFail = TRUE], <<NetworkError>>)
        ELSE LET s == generateHelpers(q, ProviderChainId, g.ret.diamond,
                                      e.genOk, "done")
             IN  IF e.genOk THEN ReturnValue(s, g.ret.diamond)
                 ELSE Throw(s, <<WriteError>>)

\* generate-helpers task, line 39: the directory the task announces,
\* taskArgs.outputDir || hre.diamondsFoundry.helpersDir.  The task logs it
\* (line 43) and hands generateDeploymentHelpers no directory (lines 74-79).
outputDir(taskArgs) ==
    IF TruthyString(taskArgs, "outputDir") THEN taskArgs["outputDir"] ELSE HelpersDir

\* Mutant of conflictingFlags: the flags are not validated.
conflictingFlags_Unchecked(reuse, force) == FALSE

\* deploy task, line 40: if (reuse && force)
conflictingFlags(reuse, force) == reuse /\ force

\* The diamonds-forge:deploy action (deploy.ts lines 31-108), on the
\* DeploymentManager it creates at line 62.
deployTask(p, e) ==
    IF conflictingFlags(p.reuse, p.force)
    THEN Throw(p, <<ConflictingFlags>>)
    ELSE IF p.reuse
    THEN ensureOrThrow(p, FALSE, e)
    ELSE LET r == deploy(ManagerWorld(p), p.diamondName, p.networkName,
                         p.force, FALSE, e.netOk3, e.libOk2)
             q == Absorb(p, r, "deploy")
         IN  IF r.ret.kind = "error" THEN Throw(q, r.ret.message)
             ELSE ReturnValue(q, r.ret.diamond)

\* ------------------------------------------------------------------ state
VARIABLES
    keys,              \* the (diamondName, networkName) pairs in use
    deploymentCache,   \* DeploymentManager.deploymentCache
    files,             \* the deployment record files on disk
    deployed,          \* number of Diamonds deployed in this process
    last,              \* the last call made: its arguments and what it did
    helperFile,        \* the generated DiamondDeployment.sol
    run                \* the framework or task call in progress, or the last one

vars == <<keys, deploymentCache, files, deployed, last, helperFile, run>>

World == [cache |-> deploymentCache, files |-> files, deployed |-> deployed,
          calls |-> <<>>, netFail |-> FALSE, ret |-> Null]

\* What is recorded of a call: the arguments, the result, the library calls
\* made, and what the cache and the record store held for the key before.
Observe(op, k, chainId, force, write, r) ==
    [op |-> op, diamondName |-> k.diamondName, networkName |-> k.networkName,
     chainId |-> chainId, force |-> force, write |-> write,
     ret |-> r.ret, calls |-> r.calls, netFail |-> r.netFail,
     cachedBefore |-> MapGet(deploymentCache,
                             cacheKey(k.diamondName, k.networkName, chainId)),
     recordBefore |-> MapGet(files,
                             getDeploymentPath(k.diamondName, k.networkName, chainId)),
     cacheSame |-> r.cache = deploymentCache,
     filesSame |-> r.files = files]

Commit(r, obs) ==
    /\ r.deployed <= MaxDeploys
    /\ deploymentCache' = r.cache
    /\ files' = r.files
    /\ deployed' = r.deployed
    /\ last' = obs
    /\ UNCHANGED <<keys, helperFile, run>>

\* Records left on disk by an earlier run: none, or one for the first key.
InitialFiles(ks) ==
    { EmptyMap,
      MapSet(EmptyMap,
             getDeploymentPath(ks[1].diamondName, ks[1].networkName,
                               ProviderChainId),
             Diamond(1, ks[1].diamondName, ks[1].networkName,
                     ProviderChainId)) }

\* process.exitCode as a task leaves it: undefined until the task sets it.
ExitCodeUnset == [set |-> FALSE, code |-> 0]
ExitCode(code) == [set |-> TRUE, code |-> code]

\* No framework or task call made yet.
NoRun ==
    [op |-> "none", owner |-> "none", viaTask |-> FALSE, pc |-> "done",
     diamondName |-> <<>>, networkName |-> <<>>,
     force |-> FALSE, reuse |-> FALSE, skipDeployment |-> FALSE,
     skipHelpers |-> FALSE, save |-> FALSE, options |-> NoOptions,
     taskArgs |-> NoOptions, now |-> 0,
     cache |-> EmptyMap, files |-> EmptyMap, deployed |-> 0, helper |-> NoHelper,
     cacheBefore |-> EmptyMap, filesBefore |-> EmptyMap, helperBefore |-> NoHelper,
     events |-> <<>>, calls |-> <<>>, netFail |-> FALSE, args |-> <<>>, child |-> NotSpawned,
     exec |-> "none", ret |-> "pending", message |-> <<>>, diamond |-> NoDiamond,
     exitCode |-> ExitCodeUnset]

NoCall ==
    [op |-> "none", diamondName |-> <<>>, networkName |-> <<>>,
     chainId |-> ProviderChainId, force |-> FALSE, write |-> FALSE,
     ret |-> Null, calls |-> <<>>, netFail |-> FALSE,
     cachedBefore |-> Null, recordBefore |-> Null,
     cacheSame |-> TRUE, filesSame |-> TRUE]

Init ==
    /\ keys \in KeyFamilies
    /\ deploymentCache = EmptyMap
    /\ files \in InitialFiles(keys)
    /\ deployed = 0
    /\ last = NoCall
    /\ helperFile = NoHelper
    /\ run = NoRun

\* The answers of the provider and of the library during one call.  An
\* answer that cannot be asked for (after a provider failure that ends the
\* operation or skips the library) is fixed, so that each run is listed once.
DeployEnvs ==
    { e \in [netOk : BOOLEAN, libOk : BOOLEAN] : ~e.netOk => e.libOk }

EnsureEnvs ==
    { e \in [netOk1 : BOOLEAN, netOk2 : BOOLEAN, libOk1 : BOOLEAN,
             netOk3 : BOOLEAN, libOk2 : BOOLEAN] :
        /\ ~e.netOk1 => e.netOk2 /\ e.netOk3 /\ e.libOk1 /\ e.libOk2
        /\ ~e.netOk2 => e.libOk1
        /\ ~e.netOk3 => e.libOk2 }

\* ---------------------------------------------------------------- actions
Deploy ==
    \E i \in DOMAIN keys, force \in BOOLEAN, write \in BOOLEAN, e \in DeployEnvs :
        LET k == keys[i]
            r == deploy(World, k.diamondName, k.networkName, force, write,
                        e.netOk, e.libOk)
        IN  Commit(r, Observe("deploy", k, ProviderChainId, force, write, r))

GetDeployment ==
    \E i \in DOMAIN keys, chainId \in ChainIdArgs, e \in DeployEnvs :
        LET k == keys[i]
            r == getDeployment(World, k.diamondName, k.networkName, chainId,
                               e.netOk, e.libOk)
            actual == IF chainId.given THEN chainId.value ELSE ProviderChainId
        IN  Commit(r, Observe("getDeployment", k, actual, FALSE, FALSE, r))

EnsureDeployment ==
    \E i \in DOMAIN keys, force \in BOOLEAN, write \in BOOLEAN, e \in EnsureEnvs :
        LET k == keys[i]
            r == ensureDeployment(World, k.diamondName, k.networkName, force,
                                  write, e.netOk1, e.netOk2, e.libOk1,
                                  e.netOk3, e.libOk2)
        IN  Commit(r, Observe("ensureDeployment", k, ProviderChainId,
                              force, write, r))

Next == Deploy \/ GetDeployment \/ EnsureDeployment

Spec == Init /\ [][Next]_vars

\* ------------------------------------------------- the two path methods
\* getDeploymentPath is called for a key and a chain id; the call is
\* recorded with the path it returned.
GetDeploymentPath ==
    \E i \in DOMAIN keys, chainId \in ChainIds :
        LET k == keys[i]
            path == getDeploymentPath(k.diamondName, k.networkName, chainId)
            r == [World EXCEPT !.ret = [kind |-> "path", diamond |-> NoDiamond,
                                        message |-> path]]
        IN  Commit(r, Observe("getDeploymentPath", k, chainId, FALSE, FALSE, r))

\* hasDeploymentRecord is called for a key and a chain id; the call is
\* recorded with what it returned.
HasDeploymentRecord ==
    \E i \in DOMAIN keys, chainId \in ChainIds :
        LET k == keys[i]
            found == hasDeploymentRecord(files, k.diamondName, k.networkName,
                                         chainId)
            r == [World EXCEPT !.ret = [kind |-> IF found THEN "true" ELSE "false",
                                        diamond |-> NoDiamond, message |-> <<>>]]
        IN  Commit(r, Observe("hasDeploymentRecord", k, chainId, FALSE, FALSE, r))

\* The DeploymentManager with its path methods called between the
\* deployments that write the records.
PathNext == Deploy \/ GetDeploymentPath \/ HasDeploymentRecord

PathSpec == Init /\ [][PathNext]_vars

\* ------------------------------------------- frameworks and tasks: state
\* One process with one ForgeFuzzingFramework object, on which runTests,
\* deployOnly and generateHelpersOnly are called, and the four tasks, each
\* of which creates its own framework or DeploymentManager (test.ts line
\* 94, coverage.ts line 239, deploy.ts line 62, generate-helpers.ts line
\* 47).  runCoverage is the only public method of ForgeCoverageFramework
\* and runs on the object the coverage task creates for it.
TaskKey == Key(<<"a">>, <<"a">>)

\* Bound on the number of Diamonds deployed in the process.
MaxRunDeploys == 1

TaskInit ==
    /\ keys = <<TaskKey, TaskKey>>
    /\ deploymentCache = EmptyMap
    /\ files \in InitialFiles(keys)
    /\ deployed = 0
    /\ last = NoCall
    /\ helperFile = NoHelper
    /\ run = NoRun

\* The deploymentCache of the DeploymentManager a call uses: a task creates
\* a new one, a framework method uses the one of its framework.
ManagerCache(owner) ==
    IF owner = "ForgeFuzzingFramework" THEN deploymentCache ELSE EmptyMap

\* A call as it starts.
NewRun(op, owner, viaTask, force, reuse, skipDeployment, skipHelpers, save, options) ==
    [NoRun EXCEPT !.op = op, !.owner = owner, !.viaTask = viaTask,
                  !.pc = "reconcile",
                  !.diamondName = TaskKey.diamondName,
                  !.networkName = TaskKey.networkName,
                  !.force = force, !.reuse = reuse,
                  !.skipDeployment = skipDeployment,
                  !.skipHelpers = skipHelpers, !.save = save,
                  !.options = options,
                  !.cache = ManagerCache(owner), !.files = files,
                  !.deployed = deployed, !.helper = helperFile,
                  !.cacheBefore = ManagerCache(owner), !.filesBefore = files,
                  !.helperBefore = helperFile]

\* test.ts lines 99-107 and coverage.ts lines 244-252: the exit code the
\* task sets from the boolean the framework returned.
taskExitCode(success) == IF success THEN ExitCode(0) ELSE ExitCode(1)

\* The state after a step of a call.
CommitRun(p) ==
    /\ p.deployed <= MaxRunDeploys
    /\ run' = IF p.viaTask /\ p.pc = "done"
              THEN [p EXCEPT !.exitCode = taskExitCode(p.ret = "true")]
              ELSE p
    /\ files' = p.files
    /\ deployed' = p.deployed
    /\ helperFile' = p.helper
    /\ deploymentCache' = IF p.owner = "ForgeFuzzingFramework" THEN p.cache
                          ELSE deploymentCache
    /\ UNCHANGED <<keys, last>>

\* The answers of the provider, the library and the file system during the
\* generate stage; answers that are not asked for are fixed.
GenerateEnvs ==
    { e \in [netOk : BOOLEAN, libOk : BOOLEAN, netOk4 : BOOLEAN, genOk : BOOLEAN,
             netOk1 : {TRUE}, netOk2 : {TRUE}, libOk1 : {TRUE},
             netOk3 : {TRUE}, libOk2 : {TRUE}] :
        /\ ~e.netOk => e.libOk
        /\ ~e.netOk4 => e.genOk }

CoverageGenerateEnvs ==
    { e \in [netOk : BOOLEAN, libOk : BOOLEAN, netOk4 : BOOLEAN, genOk : BOOLEAN,
             netOk1 : BOOLEAN, netOk2 : BOOLEAN, libOk1 : BOOLEAN,
             netOk3 : BOOLEAN, libOk2 : BOOLEAN] :
        /\ ~e.netOk => e.libOk
        /\ ~e.netOk4 => e.genOk /\ e.netOk1
        /\ ~e.netOk1 => e.netOk2 /\ e.netOk3 /\ e.libOk1 /\ e.libOk2 /\ e.genOk
        /\ ~e.netOk2 => e.libOk1
        /\ ~e.netOk3 => e.libOk2 }

\* The options of the runner that a test or coverage call passes on: the
\* defaults of runTests (verbosity 2, no gas report), and for runCoverage
\* the force flag, which buildBuildOptions reads as well.
RunnerOptions(op, force) ==
    IF op = "runTests"
    THEN [n \in {"verbosity", "gasReport"} |-> IF n = "verbosity" THEN 2 ELSE FALSE]
    ELSE [n \in {"force"} |-> force]

\* How runTests and runCoverage get called: runTests on the framework
\* object (ForgeTestOptions has no writeDeployedDiamondData) or by the test
\* task, runCoverage by the coverage task.
RunKinds ==
    { k \in [op : {"runTests", "runCoverage"}, viaTask : BOOLEAN, save : BOOLEAN] :
        /\ k.op = "runCoverage" => k.viaTask
        /\ ~k.viaTask => ~k.save }

\* ---------------------------------------- frameworks and tasks: actions
\* runTests (lines 75-94) or runCoverage (lines 40-58) is called, directly
\* on the framework object or by the test / coverage task on a new one, and
\* checks that Foundry is installed.
StartRun ==
    /\ run.pc = "done"
    /\ \E k \in RunKinds, force \in BOOLEAN, skipDeployment \in BOOLEAN,
          skipHelpers \in BOOLEAN, installed \in BOOLEAN :
        LET owner == IF k.viaTask THEN "task" ELSE "ForgeFuzzingFramework"
            p == NewRun(k.op, owner, k.viaTask, force, FALSE, skipDeployment,
                        skipHelpers, k.save, RunnerOptions(k.op, force))
        IN  CommitRun(IF installed THEN p ELSE Return(p, FALSE))

ReconcileStage ==
    /\ run.pc = "reconcile"
    /\ \E e \in EnsureEnvs : CommitRun(reconcileStage(run, e))

GenerateStage ==
    /\ run.pc = "generate"
    /\ \/ /\ run.op = "runTests"
          /\ \E e \in GenerateEnvs : CommitRun(runTestsGenerate(run, e))
       \/ /\ run.op = "runCoverage"
          /\ \E e \in CoverageGenerateEnvs : CommitRun(runCoverageGenerate(run, e))

CompileStage ==
    /\ run.pc = "compile"
    /\ \E child \in ChildOutcomes : CommitRun(compileStage(run, child))

ExecuteStage ==
    /\ run.pc = "execute"
    /\ \E child \in ChildOutcomes :
        CommitRun(IF run.op = "runTests" THEN runTestsExecute(run, child)
                  ELSE runCoverageExecute(run, child))

DeployOnly ==
    /\ run.pc = "done"
    /\ \E force \in BOOLEAN, e \in EnsureEnvs :
        CommitRun(deployOnly(NewRun("deployOnly", "ForgeFuzzingFramework", FALSE,
                                    force, FALSE, FALSE, FALSE, FALSE, NoOptions), e))

GenerateHelpersOnly ==
    /\ run.pc = "done"
    /\ \E e \in GenerateEnvs :
        CommitRun(generateHelpersOnly(
            NewRun("generateHelpersOnly", "ForgeFuzzingFramework", FALSE,
                   FALSE, FALSE, FALSE, FALSE, FALSE, NoOptions),
            e, NoDeploymentFound))

DeployTask ==
    /\ run.pc = "done"
    /\ \E reuse \in BOOLEAN, force \in BOOLEAN, e \in EnsureEnvs :
        /\ conflictingFlags(reuse, force)
               => e.netOk1 /\ e.netOk2 /\ e.libOk1 /\ e.netOk3 /\ e.libOk2
        /\ ~reuse => e.netOk1 /\ e.netOk2 /\ e.libOk1
        /\ CommitRun(deployTask(NewRun("deployTask", "task", FALSE, force, reuse,
                                    FALSE, FALSE, FALSE, NoOptions), e))

\* The --output-dir argument of the generate-helpers task: absent or a
\* directory other than the configured one.
GenerateHelpersTaskArgs == {NoOptions, [n \in {"outputDir"} |-> "custom/helpers"]}

GenerateHelpersTask ==
    /\ run.pc = "done"
    /\ \E e \in GenerateEnvs, taskArgs \in GenerateHelpersTaskArgs :
        CommitRun(generateHelpersOnly(
            [NewRun("generateHelpersTask", "task", FALSE,
                    FALSE, FALSE, FALSE, FALSE, FALSE, NoOptions)
                EXCEPT !.taskArgs = taskArgs],
            e, DeploymentNotFound))

TaskNext ==
    \/ StartRun \/ ReconcileStage \/ GenerateStage \/ CompileStage
    \/ ExecuteStage
    \/ DeployOnly \/ GenerateHelpersOnly \/ DeployTask \/ GenerateHelpersTask

TaskSpec == TaskInit /\ [][TaskNext]_vars

\* ------------------------------------------------- reading a recorded call
\* The call met no failure of the provider or of the library.
Reliable(c) ==
    ~c.netFail /\ \A i \in DOMAIN c.calls : c.calls[i].ok

\* How often the call asked the library to deploy (getDiamondDeployed).
Deploys(c) == Cardinality({ i \in DOMAIN c.calls : c.calls[i].op = "deploy" })

SameKey(c1, c2) ==
    /\ c1.diamondName = c2.diamondName
    /\ c1.networkName = c2.networkName
    /\ c1.chainId = c2.chainId

\* What a getDeployment(diamondName, networkName) would return now, the
\* provider and the library working.
Lookup(diamondName, networkName) ==
    getDeployment(World, diamondName, networkName, Undefined, TRUE, TRUE).ret

\* DeploymentKey equality of two (diamondName, networkName, chainId):
\* the names up to letter case, the chainId exactly.
KeysEqual(k1, k2) ==
    /\ toLowerCase(k1.diamondName) = toLowerCase(k2.diamondName)
    /\ toLowerCase(k1.networkName) = toLowerCase(k2.networkName)
    /\ k1.chainId = k2.chainId

\* The cache entry and the record now held for the key of call c.
CachedNow(c) ==
    MapGet(deploymentCache, cacheKey(c.diamondName, c.networkName, c.chainId))
RecordNow(c) ==
    MapGet(files, getDeploymentPath(c.diamondName, c.networkName, c.chainId))

EphemeralReuseCall(c) ==
    ( c.op = "ensureDeployment" /\ ~c.force /\ ~c.netFail /\ c.ret.kind = "value" )
    => /\ ( ~c.write /\ c.cachedBefore.kind = "null" /\ c.recordBefore.kind = "null" )
          => ( Deploys(c) = 1 /\ Len(c.calls) = 1 /\ ~c.calls[1].write
               /\ c.filesSame )
       /\ c.cachedBefore.kind = "value"
          => ( c.ret = c.cachedBefore /\ Deploys(c) = 0 /\ c.cacheSame )

EphemeralIsolation ==
    [][ ( /\ last.op = "deploy" /\ ~last.write /\ last.ret.kind = "value"
          /\ last'.op = "getDeployment" /\ SameKey(last, last')
          /\ Reliable(last') )
        => ( /\ last'.ret = last.ret
             /\ last.filesSame
             /\ \A i \in DOMAIN last.calls : ~last.calls[i].write ) ]_vars

\* C4: an ensureDeployment(key, force=true, persist=false) that returns has
\* asked the library to deploy exactly once, whatever the cache and the
\* record store held; the cache entry for key is then the Diamond returned,
\* not the prior entry, and the next getDeployment(key) returns it.
ForcedEphemeralRedeploy ==
    ( last.op = "ensureDeployment" /\ last.force /\ ~last.write
      /\ last.ret.kind = "value" )
    => /\ Deploys(last) = 1
       /\ CachedNow(last) = last.ret
       /\ last.ret.diamond.DiamondAddress
            # last.cachedBefore.diamond.DiamondAddress
       /\ Lookup(last.diamondName, last.networkName) = last.ret

\* C4 witness: a forced ephemeral redeploy of a key that had both a cache
\* entry and a record.
ForcedEphemeralRedeployWitness ==
    /\ last.op = "ensureDeployment" /\ last.force /\ ~last.write
    /\ last.ret.kind = "value"
    /\ last.cachedBefore.kind = "value" /\ last.recordBefore.kind = "value"

\* C5: ensureDeployment(key, force=false, persist=false) with no cache entry
\* for key asks the library to deploy with writeDeployedDiamondData=false and
\* caches the result, also when a record exists at the key's record path.
LoadOnlyWhenPersist ==
    ( last.op = "ensureDeployment" /\ ~last.force /\ ~last.write
      /\ last.cachedBefore.kind = "null" /\ Reliable(last) )
    => /\ Deploys(last) = 1
       /\ \A i \in DOMAIN last.calls :
            last.calls[i].op = "deploy" => ~last.calls[i].write
       /\ last.ret.kind = "value"
       /\ CachedNow(last) = last.ret

\* C6: ensureDeployment(key, force=false, persist=true) with no record at the
\* key's record path asks the library to deploy with
\* writeDeployedDiamondData=true, so that a record exists when it returns,
\* also when the cache holds an entry for key.
CacheOnlyWhenEphemeral ==
    ( last.op = "ensureDeployment" /\ ~last.force /\ last.write
      /\ last.recordBefore.kind = "null" /\ Reliable(last) )
    => /\ Deploys(last) = 1
       /\ \A i \in DOMAIN last.calls :
            last.calls[i].op = "deploy" => last.calls[i].write
       /\ RecordNow(last).kind = "value"

CaseInsensitiveKeys ==
    [][ ( /\ last'.op \in {"getDeployment", "ensureDeployment"}
          /\ ~last'.force /\ Reliable(last')
          /\ \E i \in DOMAIN keys :
                LET k == [diamondName |-> keys[i].diamondName,
                          networkName |-> keys[i].networkName,
                          chainId |-> last'.chainId]
                IN  /\ KeysEqual(k, last')
                    /\ \/ CachedNow(k).kind = "value"
                       \/ RecordNow(k).kind = "value" )
        => ( last'.ret.kind = "value" /\ Deploys(last') = 0 ) ]_vars

\* C9: a deployment stored under one key is never returned by getDeployment
\* or ensureDeployment for a key that differs from it in diamondName or
\* networkName beyond letter case, or in chainId.
KeysNeverShare ==
    ( last.op \in {"getDeployment", "ensureDeployment"} /\ last.ret.kind = "value" )
    => KeysEqual(last.ret.diamond, last)

\* C10: when a use of the library fails during deploy or ensureDeployment
\* (the provider answering its network lookups), the call throws an Error
\* carrying the library's message, no use of the library follows the failed
\* one within the call, and the cache is left as it was.
LibraryFailureSurfaced ==
    ( last.op \in {"deploy", "ensureDeployment"} /\ ~last.netFail
      /\ \E i \in DOMAIN last.calls : ~last.calls[i].ok )
    => /\ last.ret.kind = "error"
       /\ \E j \in DOMAIN last.ret.message : last.ret.message[j] = LibraryError
       /\ \A i \in DOMAIN last.calls : ~last.calls[i].ok => i = Len(last.calls)
       /\ last.cacheSame

IsPipeline(p) == p.op \in {"runTests", "runCoverage"}

\* Where a step stands in the pipeline: deployment (ensureDeployment and
\* the lookup of its result), helper generation, compilation, building
\* the command, starting the runner.
StageRank(stage) ==
    CASE stage \in {"ensureDeployment", "getDeployment", "deploy"} -> 1
      [] stage = "generateDeploymentHelpers" -> 2
      [] stage = "compileForge" -> 3
      [] stage = "buildCommand" -> 4
      [] stage = "spawn" -> 5

Entered(p, stage) == \E i \in DOMAIN p.events : p.events[i].stage = stage
Succeeded(p, stage) ==
    \E i \in DOMAIN p.events : p.events[i].stage = stage /\ p.events[i].ok

\* The run asked the library to deploy a Diamond.
RunDeploys(p) == { i \in DOMAIN p.calls : p.calls[i].op = "deploy" }

\* C12: in runTests and runCoverage the steps follow each other in the
\* order deployment, helper generation, compilation, command building,
\* runner; the runner is started only when every stage that is not skipped
\* has succeeded before; and once a stage before the runner has failed the
\* runner is not started and the run returns false.
PipelineOrder ==
    IsPipeline(run)
    => /\ \A i, j \in DOMAIN run.events :
            i < j => /\ StageRank(run.events[i].stage) <= StageRank(run.events[j].stage)
                     /\ StageRank(run.events[i].stage) > 1
                            => run.events[i].stage # run.events[j].stage
       /\ Entered(run, "spawn")
            => /\ ~run.skipDeployment => Succeeded(run, "ensureDeployment")
               /\ ~run.skipHelpers => Succeeded(run, "generateDeploymentHelpers")
               /\ run.op = "runTests" => Succeeded(run, "compileForge")
               /\ Succeeded(run, "buildCommand")
               /\ \A i \in DOMAIN run.events :
                     run.events[i].stage # "spawn" => run.events[i].ok
       /\ (\E i \in DOMAIN run.events :
              run.events[i].stage # "spawn" /\ ~run.events[i].ok)
            => /\ ~Entered(run, "spawn")
               /\ run.pc = "done" /\ run.ret = "false"
               /\ run.viaTask => run.exitCode = ExitCode(1)

\* C13: a finished test or coverage run returned true, and the task set
\* exit code 0, exactly when the runner's child process was run and exited
\* with code 0; otherwise it returned false and the task set a nonzero code.
SuccessIffExitZero ==
    ( IsPipeline(run) /\ run.pc = "done" )
    => /\ run.ret = "true" <=> run.child = Exit(0)
       /\ run.ret \in {"true", "false"}
       /\ run.viaTask
            => /\ run.exitCode.set
               /\ run.exitCode.code = 0 <=> run.child = Exit(0)

\* C14: when the runner cannot be spawned, runForgeTest / executeForge hands
\* its caller a thrown error; the result false is handed back only for a
\* child that was spawned.
SpawnErrorRaised ==
    ( IsPipeline(run) /\ run.pc = "done" )
    => /\ run.child = SpawnError => run.exec = "throw"
       /\ run.exec = "false" => run.child.kind \in {"exit", "signal"}

\* The run met no failure of the provider, the library or the file system.
ReliableRun(p) ==
    /\ ~p.netFail
    /\ \A i \in DOMAIN p.calls : p.calls[i].ok
    /\ \A i \in DOMAIN p.events : p.events[i].ok

\* A deploy with force=false that started with an empty cache and no record,
\* and returned the Diamond it deployed.
FreshEphemeralDeploy(p) ==
    /\ p.op \in {"deployOnly", "deployTask"} /\ ~p.force
    /\ p.cacheBefore = EmptyMap /\ p.filesBefore = EmptyMap
    /\ p.ret = "value" /\ RunDeploys(p) # {}

\* generateHelpersOnly after deployOnly, the generate-helpers task after the
\* deploy task.
GenerateAfter(op) ==
    IF op = "deployOnly" THEN "generateHelpersOnly" ELSE "generateHelpersTask"

\* C15: helpers generated right after such a deploy, through the framework
\* or through the tasks, the environment working: the generation succeeds,
\* the DIAMOND_ADDRESS of the helper file is the address of the Diamond
\* deployed, and there is no record file.
EphemeralScenario ==
    [][ ( /\ FreshEphemeralDeploy(run)
          /\ run'.op = GenerateAfter(run.op)
          /\ ReliableRun(run') )
        => /\ run'.ret = "value"
           /\ helperFile'.exists
           /\ helperFile'.content.DIAMOND_ADDRESS = run.diamond.DiamondAddress
           /\ files' = EmptyMap ]_vars

\* C15, the framework's part: generateHelpersOnly right after deployOnly on
\* the same framework.
EphemeralScenarioFramework ==
    [][ ( /\ FreshEphemeralDeploy(run) /\ run.op = "deployOnly"
          /\ run'.op = "generateHelpersOnly"
          /\ ReliableRun(run') )
        => /\ run'.ret = "value"
           /\ helperFile'.exists
           /\ helperFile'.content.DIAMOND_ADDRESS = run.diamond.DiamondAddress
           /\ files' = EmptyMap ]_vars

\* The cache of the manager the call used and the record store held nothing
\* for the key when the call started.
NothingDeployed(p) ==
    /\ Null = MapGet(p.cacheBefore,
                     cacheKey(p.diamondName, p.networkName, ProviderChainId))
    /\ Null = MapGet(p.filesBefore,
                     getDeploymentPath(p.diamondName, p.networkName, ProviderChainId))

\* C16: generateHelpersOnly and the generate-helpers task, started with
\* neither a cache entry nor a record for the key, throw their "no
\* deployment found" error, never call the generator and leave the helper
\* file, the cache and the record store as they were.
NoDeploymentNoHelpers ==
    ( run.op \in {"generateHelpersOnly", "generateHelpersTask"}
      /\ NothingDeployed(run) )
    => /\ run.ret = "throw"
       /\ run.message = IF run.op = "generateHelpersOnly"
                        THEN <<NoDeploymentFound>> ELSE <<DeploymentNotFound>>
       /\ ~Entered(run, "generateDeploymentHelpers")
       /\ helperFile = run.helperBefore
       /\ run.cache = run.cacheBefore /\ files = run.filesBefore

\* C16 witness: a generate-helpers task that found no deployment and threw,
\* while a helper file written earlier in the process exists.
NoDeploymentNoHelpersWitness ==
    /\ run.op = "generateHelpersTask" /\ NothingDeployed(run)
    /\ run.ret = "throw" /\ ~run.netFail
    /\ helperFile.exists

\* C17: the deploy task called with both reuse and force throws its
\* conflicting-flags error without a call of the DeploymentManager, hence
\* of the provider or the library, and leaves the cache, the record store
\* and the helper file as they were.
ConflictingFlagsRejected ==
    ( run.op = "deployTask" /\ run.reuse /\ run.force )
    => /\ run.ret = "throw" /\ run.message = <<ConflictingFlags>>
       /\ run.events = <<>> /\ run.calls = <<>> /\ ~run.netFail
       /\ run.cache = run.cacheBefore /\ files = run.filesBefore
       /\ deployed = run.deployed /\ helperFile = run.helperBefore

\* C17 witness: a deploy task called with reuse and force that threw.
ConflictingFlagsRejectedWitness ==
    /\ run.op = "deployTask" /\ run.reuse /\ run.force
    /\ run.pc = "done" /\ run.ret = "throw"

\* C18: a runTests or runCoverage called with skipDeployment=true never
\* asks the library to deploy a Diamond.
SkipDeploymentNeverDeploys ==
    ( IsPipeline(run) /\ run.skipDeployment )
    => /\ RunDeploys(run) = {}
       /\ deployed = run.deployed

\* C19: in a test or coverage task run with --save-deployment every
\* deployment is asked for with writeDeployedDiamondData=true, and the
\* Diamond deployed has its record on disk.
SaveDeploymentPersists ==
    ( IsPipeline(run) /\ run.viaTask /\ run.save )
    => \A i \in RunDeploys(run) :
          /\ run.calls[i].write
          /\ run.calls[i].ok
               => hasDeploymentRecord(files, run.diamondName, run.networkName,
                                      ProviderChainId)

\* -------------------------------------------------- the command builders
\* Values tried for each option of CoverageOptions and of runForgeTest:
\* set ones, and where the type has one, the empty string, 0 or false.
OptionValues ==
    [report |-> << <<"lcov">>, <<"lcov", "summary">>, <<>> >>,
     reportFile |-> <<"x", "">>, lcovVersion |-> <<"v1">>,
     includeLibs |-> <<TRUE, FALSE>>, excludeTests |-> <<TRUE>>,
     irMinimum |-> <<TRUE>>,
     matchTest |-> <<"x", "">>, noMatchTest |-> <<"x">>,
     matchContract |-> <<"x">>, noMatchContract |-> <<"x">>,
     matchPath |-> <<"x">>, noMatchPath |-> <<"x">>,
     noMatchCoverage |-> <<"x">>,
     verbosity |-> <<2, 0, 1, 3, 4, 5>>, quiet |-> <<TRUE>>, json |-> <<TRUE>>,
     md |-> <<TRUE>>, color |-> <<"auto">>,
     threads |-> <<4, 0>>, fuzzRuns |-> <<4>>, fuzzSeed |-> <<"x", "">>,
     failFast |-> <<TRUE>>, allowFailure |-> <<TRUE>>,
     forkBlockNumber |-> <<4>>, initialBalance |-> <<"x">>,
     sender |-> <<"x">>, ffi |-> <<TRUE>>,
     force |-> <<TRUE, FALSE>>, noCache |-> <<TRUE>>, optimize |-> <<TRUE>>,
     optimizerRuns |-> <<4>>, viaIr |-> <<TRUE>>,
     gasReport |-> <<TRUE>>,
     forkUrl |-> <<DefaultForkUrl, "">>]

OptionNames == DOMAIN OptionValues

\* Bound on the number of options set in one options object.
MaxOptions == 2

RECURSIVE NameSets(_)
NameSets(k) ==
    IF k = 0 THEN {{}}
    ELSE LET smaller == NameSets(k - 1)
         IN  smaller \cup { s \cup {n} : s \in smaller, n \in OptionNames }

\* The options objects with at most MaxOptions fields set.
OptionInputs ==
    UNION { { [n \in names |-> OptionValues[n][choice[n]]] :
                choice \in { c \in [names -> 1..(IF "verbosity" \in names
                                                 THEN 6 ELSE 3)] :
                               \A n \in names : c[n] <= Len(OptionValues[n]) } } :
            names \in NameSets(MaxOptions) }

\* Characters of a --report argument: a letter, the separator, a blank.
ReportChars == {"l", ",", " "}

\* Bound on the length of a --report argument.
MaxReportLen == 3

\* The task arguments tried: a --report argument of up to MaxReportLen
\* characters.
TaskArgInputs ==
    { [n \in {"report"} |-> r] :
        r \in UNION { [1..k -> ReportChars] : k \in 0..MaxReportLen } }

ArgsInit ==
    /\ keys = <<TaskKey, TaskKey>>
    /\ deploymentCache = EmptyMap
    /\ files = EmptyMap
    /\ deployed = 0
    /\ last = NoCall
    /\ helperFile = NoHelper
    /\ run \in { [NoRun EXCEPT !.options = o] : o \in OptionInputs }
               \cup { [NoRun EXCEPT !.taskArgs = t] : t \in TaskArgInputs }

\* buildCoverageCommand is applied to the options.
BuildCoverageCommand ==
    /\ run.op = "none"
    /\ run' = [run EXCEPT !.op = "buildCoverageCommand",
                          !.args = buildCoverageCommand(run.options)]
    /\ UNCHANGED <<keys, deploymentCache, files, deployed, last, helperFile>>

\* runForgeTest builds its arguments from the options.
BuildTestCommand ==
    /\ run.op = "none"
    /\ run' = [run EXCEPT !.op = "runForgeTest",
                          !.args = runForgeTestArgs(run.options)]
    /\ UNCHANGED <<keys, deploymentCache, files, deployed, last, helperFile>>

\* The coverage task builds the options from its arguments and runCoverage
\* builds the command from them (coverage.ts lines 187-236, runCoverage
\* line 131).
CoverageTaskCommand ==
    /\ run.op = "none"
    /\ LET p == [run EXCEPT !.op = "coverageTask",
                            !.options = coverageTaskOptions(run.taskArgs)]
       IN  run' = [p EXCEPT !.args = buildCoverageCommand(runCoverageOptions(p))]
    /\ UNCHANGED <<keys, deploymentCache, files, deployed, last, helperFile>>

ArgsNext == BuildCoverageCommand \/ BuildTestCommand \/ CoverageTaskCommand

ArgsSpec == ArgsInit /\ [][ArgsNext]_vars

\* The option group of each flag: 0 fork URL, 1 report, 2 filter, 3 display,
\* 4 execution, 5 EVM, 6 build, as the build*Options methods group them;
\* --gas-report, which only runForgeTest emits, is counted with the display
\* options it follows.
FlagGroup ==
    [f \in {"--fork-url"} |-> 0]
    @@ [f \in {"--report", "--report-file", "--lcov-version", "--include-libs",
               "--exclude-tests", "--ir-minimum"} |-> 1]
    @@ [f \in {"--match-test", "--no-match-test", "--match-contract",
               "--no-match-contract", "--match-path", "--no-match-path",
               "--no-match-coverage"} |-> 2]
    @@ [f \in {VerbosityFlag(n) : n \in 1..5}
               \cup {"--quiet", "--json", "--md", "--color", "--gas-report"} |-> 3]
    @@ [f \in {"--threads", "--fuzz-runs", "--fuzz-seed", "--fail-fast",
               "--allow-failure"} |-> 4]
    @@ [f \in {"--fork-block-number", "--initial-balance", "--sender",
               "--ffi"} |-> 5]
    @@ [f \in {"--force", "--no-cache", "--optimize", "--optimizer-runs",
               "--via-ir"} |-> 6]

\* The group of the token at position i: that of the flag, and for the
\* value of a flag that of the flag before it.
GroupAt(args, i) ==
    IF args[i] \in DOMAIN FlagGroup THEN FlagGroup[args[i]]
    ELSE IF i > 1 /\ args[i - 1] \in DOMAIN FlagGroup THEN FlagGroup[args[i - 1]]
    ELSE 7

IsBuilt(p) == p.op \in {"buildCoverageCommand", "runForgeTest"}

\* C20: in the arguments built for coverage and for test, a fork URL that
\* is supplied gives the first two tokens --fork-url <url>, and no token of
\* a later group stands before a token of an earlier group, the groups
\* being fork URL, report, filter, display, execution, EVM, build.
ArgumentOrder ==
    IsBuilt(run)
    => /\ TruthyString(run.options, "forkUrl")
            => /\ Len(run.args) >= 2
               /\ run.args[1] = "--fork-url"
               /\ run.args[2] = run.options["forkUrl"]
       /\ \A i, j \in DOMAIN run.args :
            i < j => GroupAt(run.args, i) <= GroupAt(run.args, j)

\* C20, the coverage builder's part.
CoverageArgumentOrder ==
    run.op = "buildCoverageCommand" => ArgumentOrder

\* C29: a generate-helpers task that succeeds leaves the helper file it
\* generated from the deployment under the directory of --output-dir when
\* the option is given, and under the configured helpersDir otherwise.
OutputDirHonoured ==
    (run.op = "generateHelpersTask" /\ run.pc = "done" /\ run.ret = "value")
    => /\ helperFile.exists
       /\ helperFile.content.DIAMOND_ADDRESS = run.diamond.DiamondAddress
       /\ helperFile.dir = outputDir(run.taskArgs)

\* C29 without the option.
DefaultDirUsed ==
    ~Defined(run.taskArgs, "outputDir") => OutputDirHonoured

\* A deploy or ensureDeployment call that deployed a Diamond and returned
\* it, followed by a getDeployment for the same key that meets no failure
\* of the provider or of the library.
LookupAfterDeployment ==
    /\ last.op \in {"deploy", "ensureDeployment"}
    /\ last.ret.kind = "value"
    /\ Deploys(last) = 1
    /\ last'.op = "getDeployment"
    /\ SameKey(last, last')
    /\ Reliable(last')

\* C30: on one DeploymentManager, the getDeployment(key) that follows a
\* deploy or ensureDeployment call which deployed a Diamond for key returns
\* that Diamond, in either persistence mode, with or without force.
NoStaleLookup ==
    [][LookupAfterDeployment => last'.ret = last.ret]_vars

\* C30 for the deployments that are ephemeral or find no cache entry for
\* their key.
NoStaleLookupUncached ==
    [][(LookupAfterDeployment /\ (~last.write \/ last.cachedBefore.kind = "null"))
       => last'.ret = last.ret]_vars

\* The decimal digits of the chain ids in use.
ChainIdDigits(chainId) ==
    IF chainId = 31337 THEN <<"3", "1", "3", "3", "7">> ELSE <<"1", "2", "3", "4">>

\* C28: getDeploymentPath changes no state and returns, for a key, the one
\* path whose file name is lowercase(diamondName)-lowercase(networkName)-
\* chainId.json, the chain id as it is; hasDeploymentRecord changes no state
\* and tells whether a file exists at the path that getDeploymentPath
\* returns for the same key.
RecordPathOfKey ==
    /\ last.op = "getDeploymentPath"
        => /\ last.cacheSame /\ last.filesSame
           /\ last.ret.message
                = <<"diamonds/">> \o last.diamondName \o <<"/deployments/">>
                    \o toLowerCase(last.diamondName) \o <<"-">>
                    \o toLowerCase(last.networkName) \o <<"-">>
                    \o ChainIdDigits(last.chainId) \o <<".json">>
    /\ last.op = "hasDeploymentRecord"
        => /\ last.cacheSame /\ last.filesSame
           /\ (last.ret.kind = "true")
                <=> getDeploymentPath(last.diamondName, last.networkName,
                                      last.chainId) \in DOMAIN files

RecordPathOfKeyWitness ==
    /\ last.op = "getDeploymentPath"
    /\ last.diamondName = <<"A">>
    /\ last.chainId = HardhatChainId
    /\ last.ret.message \in DOMAIN files

\* ------------------------------------------------------ the helper file
\* Facet names tried: DiamondCutFacet, OwnershipFacet, AccessControl, A,
\* AFacet, Facet, aB.
FacetNameList ==
    << <<"D", "i", "a", "m", "o", "n", "d", "C", "u", "t", "F", "a", "c", "e", "t">>,
       <<"O", "w", "n", "e", "r", "s", "h", "i", "p", "F", "a", "c", "e", "t">>,
       <<"A", "c", "c", "e", "s", "s", "C", "o", "n", "t", "r", "o", "l">>,
       <<"A">>,
       <<"A", "F", "a", "c", "e", "t">>,
       <<"F", "a", "c", "e", "t">>,
       <<"a", "B">> >>

FacetAddresses == {1, 2}

\* Bounds on the number of facets of a deployment and on the clock.
MaxFacets == 2
MaxClock == 2

\* The facet maps with at most MaxFacets facets, in the order of
\* Object.entries, no name twice.
FacetInputs ==
    UNION { { f \in [1..k -> [name : { FacetNameList[i] : i \in DOMAIN FacetNameList },
                              address : FacetAddresses]] :
                \A i, j \in 1..k : i # j => f[i].name # f[j].name } :
            k \in 0..MaxFacets }

\* The DeployedDiamondData tried, one of them without DeployedFacets.
DeployedDataInputs ==
    { [DiamondAddress |-> 1, DeployedFacets |-> f] : f \in FacetInputs }
    \cup { [DiamondAddress |-> 1] }

HelperInit ==
    /\ keys = <<TaskKey, TaskKey>>
    /\ deploymentCache = EmptyMap
    /\ files = EmptyMap
    /\ deployed = 0
    /\ last = NoCall
    /\ helperFile = NoHelper
    /\ run \in { [NoRun EXCEPT !.diamond = d] : d \in DeployedDataInputs }

\* HelperGenerator.generateDeploymentHelpers is called for the deployment
\* data, at the time the clock shows.
GenerateDeploymentHelpers ==
    \E now \in 1..MaxClock, ok \in BOOLEAN :
        /\ now >= run.now
        /\ helperFile' = generateDeploymentHelpers(helperFile, TaskKey.diamondName,
                              TaskKey.networkName, ProviderChainId, run.diamond,
                              now, ok)
        /\ run' = [run EXCEPT !.op = "generateDeploymentHelpers",
                              !.now = now,
                              !.helperBefore = helperFile,
                              !.ret = IF ok THEN "value" ELSE "throw"]
        /\ UNCHANGED <<keys, deploymentCache, files, deployed, last>>

HelperNext == GenerateDeploymentHelpers

HelperSpec == HelperInit /\ [][HelperNext]_vars

\* The helper file was generated from the deployment data of the run.
Generated == run.op = "generateDeploymentHelpers" /\ helperFile.exists

\* C24: the generated getFacetAddress has one branch per facet, in the
\* order of the facet constants and each returning the constant of the same
\* position; for each facet name of the data it gives the address recorded
\* for that facet, and for every other name the zero address.
FacetLookup ==
    Generated
    => LET facets == DeployedFacets(run.diamond)
           content == helperFile.content
       IN  /\ Len(content.branches) = Len(facets)
           /\ Len(content.constants) = Len(facets)
           /\ \A i \in DOMAIN facets :
                /\ content.branches[i].facetName = facets[i].name
                /\ content.branches[i].returns = content.constants[i].identifier
                /\ getFacetAddress(content, facets[i].name)
                      = [kind |-> "address", address |-> facets[i].address]
           /\ \A n \in DOMAIN FacetNameList :
                (\A i \in DOMAIN facets : facets[i].name # FacetNameList[n])
                => getFacetAddress(content, FacetNameList[n])
                     = [kind |-> "address", address |-> 0]

\* No two facets of the data share the identifier of their constants.
DistinctIdentifiers ==
    LET facets == DeployedFacets(run.diamond)
    IN  \A i, j \in DOMAIN facets :
            i # j => constantName(facets[i].name) # constantName(facets[j].name)

\* C24 for the data whose facets have different identifiers.
FacetLookupDistinct == DistinctIdentifiers => FacetLookup

\* C25: the generated source declares exactly one address constant per
\* facet, bound to the facet's address, under an identifier that no other
\* facet's constant has; none when the data has no facet.
OneConstantPerFacet ==
    Generated
    => LET facets == DeployedFacets(run.diamond)
           constants == helperFile.content.constants
       IN  /\ Len(constants) = Len(facets)
           /\ \A i \in DOMAIN facets : constants[i].value = facets[i].address
           /\ \A i, j \in DOMAIN constants :
                i # j => constants[i].identifier # constants[j].identifier

\* C25 but for the identifiers being different.
OneConstantPerFacetCounted ==
    Generated
    => LET facets == DeployedFacets(run.diamond)
           constants == helperFile.content.constants
       IN  /\ Len(constants) = Len(facets)
           /\ \A i \in DOMAIN facets : constants[i].value = facets[i].address

\* The identifiers that the rule of C26 gives for the names of
\* FacetNameList, in its order.
ExpectedIdentifiers ==
    <<"DIAMOND_CUT_FACET", "OWNERSHIP_FACET", "ACCESS_CONTROL_FACET", "A_FACET",
      "A_FACET", "_FACET", "A_B_FACET">>

\* C26: the identifier of a facet's constant is the facet name with one
\* trailing Facet stripped, '_' inserted before each uppercase letter,
\* uppercased, a leading '_' stripped, and _FACET appended (DiamondCutFacet
\* gives DIAMOND_CUT_FACET, OwnershipFacet OWNERSHIP_FACET, AccessControl
\* ACCESS_CONTROL_FACET), and the accessor's branch for the facet returns
\* the same identifier.
FacetNameMangling ==
    Generated
    => LET facets == DeployedFacets(run.diamond)
           content == helperFile.content
       IN  \A i \in DOMAIN facets, n \in DOMAIN FacetNameList :
               facets[i].name = FacetNameList[n]
               => /\ content.constants[i].identifier = ExpectedIdentifiers[n]
                  /\ content.branches[i].returns = ExpectedIdentifiers[n]

FacetNameManglingWitness ==
    /\ Generated
    /\ Len(DeployedFacets(run.diamond)) = 2
    /\ DeployedFacets(run.diamond)[1].name = FacetNameList[1]
    /\ DeployedFacets(run.diamond)[2].name = FacetNameList[3]
    /\ helperFile.content.constants[1].identifier = "DIAMOND_CUT_FACET"
    /\ helperFile.content.branches[2].returns = "ACCESS_CONTROL_FACET"

\* C27: two generations from the same diamond name, network name, chain id
\* and deployment data write the same file contents.
DeterministicRendering ==
    [][(Generated /\ run'.op = "generateDeploymentHelpers" /\ run'.ret = "value")
       => helperFile'.content = helperFile.content]_vars

\* C27 but for the timestamp of the header.
DeterministicButTimestamp ==
    [][(Generated /\ run'.op = "generateDeploymentHelpers" /\ run'.ret = "value")
       => [helperFile'.content EXCEPT !.generatedAt = 0]
            = [helperFile.content EXCEPT !.generatedAt = 0]]_vars

\* The report types handed to the coverage builder.
ReportOf(p) == IF Defined(p.options, "report") THEN p.options["report"] ELSE <<>>

IsCoverageBuilt(p) == p.op \in {"buildCoverageCommand", "coverageTask"}

\* C21: for report = [r1, ..., rn], as given to the builder or as the
\* coverage task splits it from its --report argument, the coverage argument
\* vector has exactly n --report flags, and holds the n pairs
\* (--report, r1), ..., (--report, rn) one after the other in array order.
MultiValuedReport ==
    IsCoverageBuilt(run)
    => LET report == ReportOf(run)
           n == Len(report)
           args == run.args
       IN  /\ Cardinality({ i \in DOMAIN args : args[i] = "--report" }) = n
           /\ \E s \in 0..Len(args) :
                 \A i \in 1..n :
                    /\ s + 2 * i <= Len(args)
                    /\ args[s + 2 * i - 1] = "--report"
                    /\ args[s + 2 * i] = report[i]

\* C21 for the arrays without an empty element: the pairs are there.
MultiValuedReportNonEmpty ==
    (\A i \in DOMAIN ReportOf(run) : ReportOf(run)[i] # "") => MultiValuedReport

\* The tokens -v ... -vvvvv by level, and every token that could stand for
\* a verbosity.
VerbosityTokens == <<"-v", "-vv", "-vvv", "-vvvv", "-vvvvv">>
VerbosityLike == { VerbosityTokens[n] : n \in 1..5 } \cup {"--verbosity"}

\* C22: in the arguments built for coverage and for test, a verbosity n
\* with 1 <= n <= 5 gives exactly one verbosity token, '-' followed by n
\* times 'v', and no --verbosity flag; verbosity 0 or no verbosity gives no
\* verbosity token.
VerbosityTranslation ==
    IsBuilt(run)
    => LET args == run.args
           at == { i \in DOMAIN args : args[i] \in VerbosityLike }
       IN  IF Defined(run.options, "verbosity") /\ run.options["verbosity"] # 0
           THEN run.options["verbosity"] \in 1..5
                => /\ Cardinality(at) = 1
                   /\ \A i \in at : args[i] = VerbosityTokens[run.options["verbosity"]]
           ELSE at = {}

VerbosityTranslationWitness ==
    /\ run.op = "buildCoverageCommand"
    /\ Defined(run.options, "verbosity")
    /\ run.options["verbosity"] = 3
    /\ \E i \in DOMAIN run.args : run.args[i] = "-vvv"

\* The flag of each field of the coverage options that gives at most one
\* flag, by the kind of the field.
BooleanFlags ==
    [includeLibs |-> "--include-libs", excludeTests |-> "--exclude-tests",
     irMinimum |-> "--ir-minimum", quiet |-> "--quiet", json |-> "--json",
     md |-> "--md", failFast |-> "--fail-fast",
     allowFailure |-> "--allow-failure", ffi |-> "--ffi", force |-> "--force",
     noCache |-> "--no-cache", optimize |-> "--optimize", viaIr |-> "--via-ir"]
StringFlags ==
    [forkUrl |-> "--fork-url", reportFile |-> "--report-file",
     lcovVersion |-> "--lcov-version", matchTest |-> "--match-test",
     noMatchTest |-> "--no-match-test", matchContract |-> "--match-contract",
     noMatchContract |-> "--no-match-contract", matchPath |-> "--match-path",
     noMatchPath |-> "--no-match-path",
     noMatchCoverage |-> "--no-match-coverage", color |-> "--color",
     fuzzSeed |-> "--fuzz-seed", initialBalance |-> "--initial-balance",
     sender |-> "--sender"]
NumberFlags ==
    [threads |-> "--threads", fuzzRuns |-> "--fuzz-runs",
     forkBlockNumber |-> "--fork-block-number",
     optimizerRuns |-> "--optimizer-runs"]

Occurrences(args, token) == Cardinality({ i \in DOMAIN args : args[i] = token })
PairIn(args, flag, value) ==
    \E i \in DOMAIN args :
        /\ i + 1 <= Len(args)
        /\ args[i] = flag
        /\ args[i + 1] = value

\* What C23 says of the coverage arguments, the valued string fields that
\* count as present being those that Present tells.
EmissionBy(Present(_, _)) ==
    run.op = "buildCoverageCommand"
    => LET o == run.options
           args == run.args
       IN  /\ \A n \in DOMAIN BooleanFlags :
                /\ ~Defined(o, n) => Occurrences(args, BooleanFlags[n]) = 0
                /\ Defined(o, n) /\ o[n] => Occurrences(args, BooleanFlags[n]) = 1
           /\ \A n \in DOMAIN StringFlags :
                IF Present(o, n)
                THEN /\ Occurrences(args, StringFlags[n]) = 1
                     /\ PairIn(args, StringFlags[n], o[n])
                ELSE ~Defined(o, n) => Occurrences(args, StringFlags[n]) = 0
           /\ \A n \in DOMAIN NumberFlags :
                IF Defined(o, n)
                THEN /\ Occurrences(args, NumberFlags[n]) = 1
                     /\ PairIn(args, NumberFlags[n], numberToString(o[n]))
                ELSE Occurrences(args, NumberFlags[n]) = 0
           /\ o = NoOptions => args = <<>>

\* C23: in the coverage arguments a field that is absent gives no token, a
\* boolean field that is true gives its bare flag once, and a valued field
\* that is present gives its flag once, immediately followed by its value;
\* with no field set the argument vector is empty.
PresenceControlsEmission == EmissionBy(Defined)

\* C23 with a string field counted as present when it is not empty.
TruthyControlsEmission == EmissionBy(TruthyString)

====
